---- MODULE Spec2Model ----
(***************************************************************************)
(* Model of lambda_src/app.py: the Telegram ride bot's webhook handler.    *)
(* Every inbound event is handled by an independent invocation of          *)
(* lambda_handler; invocations share nothing but the DynamoDB table.  The  *)
(* table is modelled by its four item families (session, profile, the      *)
(* user-keyed trip item, the by-id META item); every get_item / put_item / *)
(* update_item / query is one atomic step and the steps of concurrent      *)
(* invocations interleave freely.  Reads are taken to return the latest    *)
(* write.  A Telegram call either returns or raises; a raise outside a     *)
(* try block ends the invocation (pc = "crashed").                         *)
(***************************************************************************)
EXTENDS Integers, Sequences, FiniteSets, TLC

\* ---------------------------------------------------------------- bounds
NumInv == 2
MaxEvents == 3
NumDrivers == 2
\* Number of distinct trip ids save_trip can draw.
MaxListIds == 6
\* Number of events handled on top of a history of trips.
MaxListEvents == 2

Invs == 1..NumInv
Drivers == 1..NumDrivers
\* The trip ids callback payloads name.  The dispatch of one trip is
\* modelled: no handler reads or writes an item of another trip.
TripIds == {1}

\* The ids save_trip draws from; their order is the order of the sort keys
\* "TRIP#<id>".
ListIds == 1..MaxListIds
\* list_recent_trips: Limit=5
ListLimit == 5

\* Telegram chat ids of the passengers; the drivers' chat ids are 1..NumDrivers.
Users == {101, 102}
\* The requesting user (the chat the trip buttons are tapped in).
Owner == CHOOSE u \in Users : \A v \in Users : u <= v

\* round_to_15m that rounds the minute to the nearest multiple of 15.
round_to_15mNearest(t) ==
    LET minute == (t \div 60) % 60
        hour0 == t - (t % 3600)
        minutes == ((minute + 7) \div 15) * 15
    IN  IF minutes = 60 THEN hour0 + 3600 ELSE hour0 + minutes * 60

\* round_to_15m on a wall-clock time in seconds: the minute component is
\* rounded up to a multiple of 15, seconds are dropped.
round_to_15m(t) ==
    LET minute == (t \div 60) % 60
        hour0 == t - (t % 3600)
        minutes == ((minute + 14) \div 15) * 15
    IN  IF minutes = 60 THEN hour0 + 3600 ELSE hour0 + minutes * 60

\* Epoch payloads a timepick callback carries, as wall-clock seconds of the
\* display timezone: the 6:00:00 slot, and 5:59:50 and 6:15:30 (not slot
\* boundaries).
EpochChoices == {21600, 21590, 22530}
\* The time a trip that is ready to confirm was scheduled for (the 7:30 slot).
PickedTime == round_to_15m(26990)

\* A phone stored in the profile by an earlier booking.
SavedPhone == "+18505551234"

\* A pickup address as the user types it.
PickupAddress == "100 Main St, Miami, FL"

VARIABLES
    session,    \* USER#<u>/SESSION  : the state string, split at the colon
                \*   (in state await_dropoff followed by data.pickup_raw)
    profile,    \* USER#<u>/PROFILE  : phone ("" = no item / no phone)
    utrip,      \* USER#<u>/TRIP#<t> : user-keyed trip item
    meta,       \* TRIP#<t>/META     : by-id trip item
    inv,        \* the concurrent invocations of lambda_handler
    last,       \* the invocation that ended last, as it ended
    events,     \* number of events handled so far
    cfDone,     \* trips for which a confirm that set status pending has ended
    drvReq,     \* ride requests sent: trip -> driver -> count
    paxNote,    \* outcome notifications sent to the passenger: trip -> kinds
    listing,    \* the items the last my-trips query returned
    failed,     \* an invocation has ended with an unhandled exception
    calc,       \* the last call of a pure helper: configuration, arguments, result
    cfShown     \* trips whose Confirm button has been presented to the user

vars ==
    <<session, profile, utrip, meta, inv, last, events, cfDone, drvReq, paxNote,
      listing, failed, calc, cfShown>>

\* ------------------------------------------------------------ item shapes
NoDriver == <<>>

\* _DRIVER_PROFILES.get(str(driver_id), {}) with the name / car of the entry
DriverName(d) == <<"name", d>>
DriverCar(d) == <<"car", d>>

\* An item that does not exist: table.get_item returns no "Item".
NoMeta ==
    [exists |-> FALSE, user_id |-> 0, status |-> "none", created_at |-> 0,
     desired_time |-> 0, passenger_phone |-> "",
     driver_id |-> 0, driver_name |-> NoDriver, driver_car |-> NoDriver]

NoUTrip ==
    [exists |-> FALSE, user_id |-> 0, status |-> "none", created_at |-> 0,
     desired_time |-> 0, driver_name |-> NoDriver, driver_car |-> NoDriver]

\* save_trip: the two items it puts, both with status await_when.
NewMeta(u, created) ==
    [NoMeta EXCEPT !.exists = TRUE, !.user_id = u, !.status = "await_when",
                   !.created_at = created]

NewUTrip(u, created) ==
    [NoUTrip EXCEPT !.exists = TRUE, !.user_id = u, !.status = "await_when",
                    !.created_at = created]

NoSession == <<"none">>

\* ------------------------------------------------------------ invocations
IdleInv ==
    [kind |-> "idle", pc |-> "idle", chat |-> 0, trip |-> 0, drv |-> 0,
     epoch |-> 0, m |-> NoMeta, saved |-> "", st |-> "none",
     out |-> <<>>, wrote |-> {}, after |-> FALSE]

\* An invocation has ended when it returned the 200 response ("done") or
\* an exception left lambda_handler ("crashed").
Ended(r) == r.pc \in {"done", "crashed"}

\* No helper has been called on its own.
NoCalc == [fn |-> "none", cfg |-> <<>>, arg |-> <<>>, res |-> <<>>]

\* The invocation that ended as r got the message "Ready to confirm ride
\* #<id>?" with the Confirm button through to the user: the call is in its
\* log and is not the call that raised.
PresentedConfirm(r) ==
    /\ Ended(r)
    /\ \E k \in 1..Len(r.out) :
          /\ r.out[k].tag = "ready_to_confirm"
          /\ r.pc = "done" \/ k < Len(r.out)

\* Invocation i goes on as r; when r has ended, its slot is free again and
\* r is kept in last.  A step of a handler is no call of a helper on its
\* own.
Step(i, r) ==
    /\ inv' = [inv EXCEPT ![i] = IF Ended(r) THEN IdleInv ELSE r]
    /\ last' = IF Ended(r) THEN r ELSE last
    /\ failed' = (failed \/ r.pc = "crashed")
    /\ calc' = calc
    /\ cfShown' = IF PresentedConfirm(r) THEN cfShown \cup {r.trip} ELSE cfShown

\* Invocations are interchangeable: a new event takes the lowest free slot.
Free(i) == inv[i].pc = "idle" /\ \A j \in 1..(i - 1) : inv[j].pc # "idle"

\* ------------------------------------------------------- Telegram calls
\* One outbound call as it is logged in the invocation: the API method, the
\* chat it goes to and which text it carries (tag; st / who are the status
\* or the driver name the text states).
Call(call, to, tag, st, who) ==
    [call |-> call, to |-> to, tag |-> tag, st |-> st, who |-> who]

\* tg_send_message(to, text)
Send(to, tag) == Call("send", to, tag, "", NoDriver)

\* tg_edit_text(chat_id, msg_id, text, clear_keyboard=True).  Inside
\*   try: tg_edit_text(...)  except: tg_edit_reply_markup_clear(...)
\* the call counts as delivered when the edit or the clear-buttons fallback
\* returned, and as raising when both raised.
Edit(to, tag, st, who) == Call("edit", to, tag, st, who)

\* The two calls of such a try / except taken apart: tg_edit_text alone and
\* tg_edit_reply_markup_clear alone.
EditText(to, tag) == Call("edit_text", to, tag, "", NoDriver)
ClearButtons(to) == Call("clear_buttons", to, "", "", NoDriver)

\* tg_request: a straight run of outbound calls of which the first n
\* return.  The calls made are logged; when one raises (n < Len(calls))
\* the exception leaves lambda_handler, otherwise the handler goes on at
\* next.
tg_request(r, calls, n, next) ==
    [r EXCEPT !.out = @ \o SubSeq(calls, 1, IF n < Len(calls) THEN n + 1 ELSE n),
              !.pc = IF n < Len(calls) THEN "crashed" ELSE next]

\* ----------------------------------------------------- starting an event
\* A fresh invocation for a callback tapped in chat c.
Begin(kind, c, t) ==
    [IdleInv EXCEPT !.kind = kind, !.chat = c, !.trip = t]

CanStart(i) == Free(i) /\ events < MaxEvents

\* The ghost cfDone: a confirm that wrote status pending has ended.
cfDoneAfter(r) ==
    IF r.kind = "confirm" /\ Ended(r) /\ "meta_status" \in r.wrote
    THEN cfDone \cup {r.trip} ELSE cfDone

\* ------------------------------------------------------ set_trip_status
\* First update_item: TRIP#<id>/META, SET status (unconditional; creates
\* the item if it is missing).
SetStatusMetaItem(it, status) ==
    [it EXCEPT !.exists = TRUE, !.status = status]

SetTripStatusMeta(i) ==
    /\ inv[i].pc = "st_meta"
    /\ meta' = [meta EXCEPT ![inv[i].trip] = SetStatusMetaItem(@, inv[i].st)]
    /\ Step(i, [inv[i] EXCEPT !.pc = "st_user",
                              !.wrote = @ \cup {"meta_status"}])
    /\ UNCHANGED <<session, profile, utrip, events, cfDone, drvReq, paxNote, listing>>

\* Where the caller goes on after set_trip_status returns.
AfterStatus(kind) ==
    CASE kind = "confirm" -> "cf_bcast"
      [] kind = "accept" -> "ac_notify"
      [] OTHER -> "dc_pax"

\* Second update_item: USER#<uid>/TRIP#<id>, SET status, uid = meta["user_id"].
SetStatusUserItem(it, status) ==
    [it EXCEPT !.exists = TRUE, !.status = status]

SetTripStatusUser(i) ==
    /\ inv[i].pc = "st_user"
    /\ utrip' = [utrip EXCEPT ![inv[i].m.user_id][inv[i].trip] =
                     SetStatusUserItem(@, inv[i].st)]
    /\ Step(i, [inv[i] EXCEPT !.pc = AfterStatus(inv[i].kind),
                              !.wrote = @ \cup {"user_status"}])
    /\ UNCHANGED <<session, profile, meta, events, cfDone, drvReq, paxNote, listing>>

\* ------------------------------------------------------------- confirm
\* ConfirmBranch with an idempotency guard that only knows "pending".
ConfirmBranchPendingOnly(m) ==
    IF ~m.exists THEN "cf_err"
    ELSE IF m.status = "pending" THEN "cf_already"
    ELSE IF m.desired_time = 0 THEN "cf_needtime"
    ELSE IF m.passenger_phone = "" THEN "cf_needphone"
    ELSE IF m.user_id = 0 THEN "crashed"
    ELSE "st_meta"

\* ConfirmBranch without the check for a passenger phone.
ConfirmBranchNoPhoneCheck(m) ==
    IF ~m.exists THEN "cf_err"
    ELSE IF m.status \in {"pending", "accepted", "declined"} THEN "cf_already"
    ELSE IF m.desired_time = 0 THEN "cf_needtime"
    ELSE IF m.user_id = 0 THEN "crashed"
    ELSE "st_meta"

\* ConfirmBranch that goes to the fan-out without setting the status.
ConfirmBranchSendsFirst(m) ==
    IF ~m.exists THEN "cf_err"
    ELSE IF m.status \in {"pending", "accepted", "declined"} THEN "cf_already"
    ELSE IF m.desired_time = 0 THEN "cf_needtime"
    ELSE IF m.passenger_phone = "" THEN "cf_needphone"
    ELSE IF m.user_id = 0 THEN "crashed"
    ELSE "cf_bcast"

\* The branch the confirm handler takes on the META item it read.
ConfirmBranch(m) ==
    IF ~m.exists THEN "cf_err"
    ELSE IF m.status \in {"pending", "accepted", "declined"} THEN "cf_already"
    ELSE IF m.desired_time = 0 THEN "cf_needtime"
    ELSE IF m.passenger_phone = "" THEN "cf_needphone"
    ELSE IF m.user_id = 0 THEN "crashed"    \* meta["user_id"]: KeyError
    ELSE "st_meta"

\* data.startswith("confirm:") ; meta = get_trip_meta(trip_id)
ConfirmStart(i, t) ==
    /\ CanStart(i)
    /\ Step(i, [Begin("confirm", Owner, t) EXCEPT
                   !.m = meta[t], !.pc = ConfirmBranch(meta[t]),
                   !.st = "pending", !.after = (t \in cfDone)])
    /\ events' = events + 1
    /\ UNCHANGED <<session, profile, utrip, meta, cfDone, drvReq, paxNote, listing>>

\* The three early returns that only send a text to the user: "Something
\* went wrong", "Please pick date & time first", "Please enter your phone
\* number first".
ConfirmPrompt(i) ==
    /\ inv[i].pc \in {"cf_err", "cf_needtime", "cf_needphone"}
    /\ \E n \in 0..1 :
          Step(i, tg_request(inv[i], <<Send(inv[i].chat, inv[i].pc)>>, n, "done"))
    /\ UNCHANGED <<session, profile, utrip, meta, events, cfDone, drvReq, paxNote, listing>>

\* Idempotency guard: "Request #<id> is already <current>."
ConfirmAlready(i) ==
    /\ inv[i].pc = "cf_already"
    /\ \E n \in 0..1 :
          Step(i, tg_request(inv[i],
                     <<Edit(inv[i].chat, "already", inv[i].m.status, NoDriver)>>,
                     n, "done"))
    /\ UNCHANGED <<session, profile, utrip, meta, events, cfDone, drvReq, paxNote, listing>>

\* After set_trip_status: "Request #<id> sent to the driver.", then
\* for drv in _DRIVER_CHAT_IDS: tg_send_message(drv, driver_msg, buttons)
\* The ride request as driver drv gets it, with the buttons
\* "accept:<trip_id>:<drv>" and "decline:<trip_id>:<drv>".
RideRequest(t, drv) ==
    Call("send", drv, "ride_request", "", <<"accept_decline", t, drv>>)

BroadcastCalls(c, t) ==
    <<Edit(c, "sent", "", NoDriver)>> \o [drv \in Drivers |-> RideRequest(t, drv)]

ConfirmBroadcast(i) ==
    /\ inv[i].pc = "cf_bcast"
    /\ \E n \in 0..(NumDrivers + 1) :
          LET r == tg_request(inv[i], BroadcastCalls(inv[i].chat, inv[i].trip), n, "done")
          IN  /\ Step(i, r)
              /\ drvReq' = [drvReq EXCEPT ![inv[i].trip] =
                               [d \in Drivers |-> IF d + 1 <= n THEN @[d] + 1 ELSE @[d]]]
              /\ cfDone' = cfDoneAfter(r)
    /\ UNCHANGED <<session, profile, utrip, meta, events, paxNote, listing>>

\* -------------------------------------------------------------- accept
\* AcceptBranch without the double-accept guard.
AcceptBranchNoGuard(m) ==
    IF ~m.exists THEN "ac_nf" ELSE "ac_driver"

\* AcceptBranch that sets the status without attaching the driver first.
AcceptBranchStatusFirst(m) ==
    IF ~m.exists THEN "ac_nf"
    ELSE IF m.status = "accepted" THEN "ac_taken"
    ELSE "st_meta"

\* The branch the accept handler takes on the META item it read: the only
\* status it tests for is "accepted".
AcceptBranch(m) ==
    IF ~m.exists THEN "ac_nf"
    ELSE IF m.status = "accepted" THEN "ac_taken"
    ELSE "ac_driver"

\* A driver taps the accept / decline button of a request that was sent to
\* them.
HasButtons(t, d) == drvReq[t][d] > 0

\* data.startswith("accept:") ; meta = get_trip_meta(trip_id)
AcceptStart(i, t, d) ==
    /\ CanStart(i)
    /\ HasButtons(t, d)
    /\ Step(i, [Begin("accept", d, t) EXCEPT
                   !.drv = d, !.m = meta[t], !.pc = AcceptBranch(meta[t]),
                   !.st = "accepted"])
    /\ events' = events + 1
    /\ UNCHANGED <<session, profile, utrip, meta, cfDone, drvReq, paxNote, listing>>

\* if not meta: tg_edit_text("Ride not found") -- not inside a try block:
\* the edit alone, without the clear-buttons fallback
AcceptNotFound(i) ==
    /\ inv[i].pc = "ac_nf"
    /\ \E n \in 0..1 :
          Step(i, tg_request(inv[i], <<EditText(inv[i].chat, "not_found")>>,
                             n, "done"))
    /\ UNCHANGED <<session, profile, utrip, meta, events, cfDone, drvReq, paxNote, listing>>

\* "Ride #<id> already accepted by <taken_by>."
AcceptTaken(i) ==
    /\ inv[i].pc = "ac_taken"
    /\ \E n \in 0..1 :
          Step(i, tg_request(inv[i],
                     <<Edit(inv[i].chat, "taken", "", inv[i].m.driver_name)>>,
                     n, "done"))
    /\ UNCHANGED <<session, profile, utrip, meta, events, cfDone, drvReq, paxNote, listing>>

\* set_trip_driver: update_item TRIP#<id>/META, SET driver_id, name, car
SetDriverItem(it, d) ==
    [it EXCEPT !.exists = TRUE, !.driver_id = d,
               !.driver_name = DriverName(d), !.driver_car = DriverCar(d)]

AcceptSetDriver(i) ==
    /\ inv[i].pc = "ac_driver"
    /\ meta' = [meta EXCEPT ![inv[i].trip] = SetDriverItem(@, inv[i].drv)]
    /\ Step(i, [inv[i] EXCEPT
                   !.pc = IF inv[i].m.user_id = 0
                          THEN "crashed"    \* meta["user_id"]: KeyError
                          ELSE "st_meta",
                   !.wrote = @ \cup {"meta_driver"}])
    /\ UNCHANGED <<session, profile, utrip, events, cfDone, drvReq, paxNote, listing>>

\* After set_trip_status: "Ride #<id> accepted." to the driver, "Your
\* request has been confirmed. Driver: <dname>" to meta["user_chat_id"],
\* "Client notified" to the driver.
AcceptCalls(r) ==
    <<Edit(r.chat, "accepted", "", NoDriver),
      Call("send", r.m.user_id, "pax_accepted", "", DriverName(r.drv)),
      Send(r.chat, "client_notified")>>

AcceptNotify(i) ==
    /\ inv[i].pc = "ac_notify"
    /\ \E n \in 0..3 :
          /\ Step(i, tg_request(inv[i], AcceptCalls(inv[i]), n, "done"))
          /\ paxNote' = IF n >= 2
                        THEN [paxNote EXCEPT ![inv[i].trip].acc[inv[i].drv] = @ + 1]
                        ELSE paxNote
    /\ UNCHANGED <<session, profile, utrip, meta, events, cfDone, drvReq, listing>>

\* ------------------------------------------------------------- decline
\* DeclineMutates that only rules out an accepted trip.
DeclineMutatesUnlessAccepted(m) == m.exists /\ m.status # "accepted"

\* if meta and meta.get("status") == "pending"
DeclineMutates(m) == m.exists /\ m.status = "pending"

\* data.startswith("decline:") ; meta = get_trip_meta(trip_id)
DeclineStart(i, t, d) ==
    /\ CanStart(i)
    /\ HasButtons(t, d)
    /\ Step(i, [Begin("decline", d, t) EXCEPT
                   !.drv = d, !.m = meta[t], !.pc = "dc_edit",
                   !.st = "declined"])
    /\ events' = events + 1
    /\ UNCHANGED <<session, profile, utrip, meta, cfDone, drvReq, paxNote, listing>>

\* "Ride #<id> declined." -- before the status is looked at
DeclineEdit(i) ==
    /\ inv[i].pc = "dc_edit"
    /\ \E n \in 0..1 :
          Step(i, tg_request(inv[i],
                     <<Edit(inv[i].chat, "declined", "", NoDriver)>>, n,
                     IF DeclineMutates(inv[i].m) THEN "st_meta" ELSE "done"))
    /\ UNCHANGED <<session, profile, utrip, meta, events, cfDone, drvReq, paxNote, listing>>

\* tg_send_message(meta["user_chat_id"], "Sorry, your request was declined.")
DeclineNotifyPassenger(i) ==
    /\ inv[i].pc = "dc_pax"
    /\ \E n \in 0..1 :
          /\ Step(i, tg_request(inv[i],
                        <<Send(inv[i].m.user_id, "pax_declined")>>, n, "done"))
          /\ paxNote' = IF n = 1
                        THEN [paxNote EXCEPT ![inv[i].trip].dec = @ + 1]
                        ELSE paxNote
    /\ UNCHANGED <<session, profile, utrip, meta, events, cfDone, drvReq, listing>>

\* ------------------------------------------------------------ timepick
\* set_trip_when_epoch: update_item TRIP#<id>/META, SET desired_time_text,
\* desired_time_epoch (the rounded time)
SetWhenItem(it, epoch) ==
    [it EXCEPT !.exists = TRUE, !.desired_time = round_to_15m(epoch)]

\* data.startswith("timepick:") ; set_trip_when_epoch(trip_id, epoch_i)
TimepickStart(i, t, e) ==
    /\ CanStart(i)
    /\ meta' = [meta EXCEPT ![t] = SetWhenItem(@, e)]
    /\ Step(i, [Begin("timepick", Owner, t) EXCEPT
                   !.epoch = e, !.pc = "tp_edit", !.wrote = {"meta_when"}])
    /\ events' = events + 1
    /\ UNCHANGED <<session, profile, utrip, cfDone, drvReq, paxNote, listing>>

\* "Time: <h:mm AM>", then after_when_ask_phone_or_profile:
\* prof = get_profile(user_id)
TimepickEdit(i) ==
    /\ inv[i].pc = "tp_edit"
    /\ \E n \in 0..1 :
          Step(i, [tg_request(inv[i], <<Edit(inv[i].chat, "time", "", NoDriver)>>,
                              n, "tp_send")
                   EXCEPT !.saved = IF n = 1 THEN profile[inv[i].chat] ELSE ""])
    /\ UNCHANGED <<session, profile, utrip, meta, events, cfDone, drvReq, paxNote, listing>>

\* put_session(user_id, f"await_phone:{trip_id}", {})
PutSessionAwaitPhone(r) ==
    IF r.pc = "put_session"
    THEN [session EXCEPT ![r.chat] = <<"await_phone", r.trip>>]
    ELSE session

\* The session write a handler ends with, once its message has been sent.
AfterPutSession(r) ==
    IF r.pc = "put_session"
    THEN [r EXCEPT !.pc = "done", !.wrote = @ \cup {"session"}]
    ELSE r

\* after_when_ask_phone_or_profile: with a saved phone the offer "Use your
\* saved phone?"; without one the prompt for a phone and
\* put_session(await_phone:<id>)
AfterWhenAskPhoneOrProfile(i) ==
    /\ inv[i].pc = "tp_send"
    /\ \E n \in 0..1 :
          LET r == IF inv[i].saved # ""
                   THEN tg_request(inv[i], <<Send(inv[i].chat, "use_saved")>>,
                                   n, "done")
                   ELSE tg_request(inv[i], <<Send(inv[i].chat, "enter_phone")>>,
                                   n, "put_session")
          IN  /\ session' = PutSessionAwaitPhone(r)
              /\ Step(i, AfterPutSession(r))
    /\ UNCHANGED <<profile, utrip, meta, events, cfDone, drvReq, paxNote, listing>>

\* ------------------------------------------------------------ usephone
\* data.startswith("usephone:") ; prof = get_profile(chat_id)
UsephoneStart(i, t) ==
    /\ CanStart(i)
    /\ Step(i, [Begin("usephone", Owner, t) EXCEPT
                   !.saved = profile[Owner],
                   !.pc = IF profile[Owner] = "" THEN "up_nophone"
                          ELSE "up_write"])
    /\ events' = events + 1
    /\ UNCHANGED <<session, profile, utrip, meta, cfDone, drvReq, paxNote, listing>>

\* "No saved phone found. Please enter your number." ; put_session
UsephoneNoPhone(i) ==
    /\ inv[i].pc = "up_nophone"
    /\ \E n \in 0..1 :
          LET r == tg_request(inv[i], <<Send(inv[i].chat, "no_saved_phone")>>,
                              n, "put_session")
          IN  /\ session' = PutSessionAwaitPhone(r)
              /\ Step(i, AfterPutSession(r))
    /\ UNCHANGED <<profile, utrip, meta, events, cfDone, drvReq, paxNote, listing>>

\* set_trip_phone: update_item TRIP#<id>/META, SET passenger_phone
SetPhoneItem(it, phone) ==
    [it EXCEPT !.exists = TRUE, !.passenger_phone = phone]

UsephoneSetPhone(i) ==
    /\ inv[i].pc = "up_write"
    /\ meta' = [meta EXCEPT ![inv[i].trip] = SetPhoneItem(@, inv[i].saved)]
    /\ Step(i, [inv[i] EXCEPT !.pc = "up_send",
                              !.wrote = @ \cup {"meta_phone"}])
    /\ UNCHANGED <<session, profile, utrip, events, cfDone, drvReq, paxNote, listing>>

\* meta = get_trip_meta(trip_id) or {} ; "Using saved phone ... Ready to
\* confirm ride #<id>?" with the Confirm button
UsephoneSend(i) ==
    /\ inv[i].pc = "up_send"
    /\ \E n \in 0..1 :
          Step(i, [tg_request(inv[i], <<Send(inv[i].chat, "ready_to_confirm")>>,
                              n, "done")
                   EXCEPT !.m = meta[inv[i].trip]])
    /\ UNCHANGED <<session, profile, utrip, meta, events, cfDone, drvReq, paxNote, listing>>

\* ---------------------------------------------------------- changephone
\* data.startswith("changephone:")
ChangephoneStart(i, t) ==
    /\ CanStart(i)
    /\ Step(i, [Begin("changephone", Owner, t) EXCEPT !.pc = "cp_send"])
    /\ events' = events + 1
    /\ UNCHANGED <<session, profile, utrip, meta, cfDone, drvReq, paxNote, listing>>

\* "Please enter your phone number." ; put_session(await_phone:<id>)
ChangephoneSend(i) ==
    /\ inv[i].pc = "cp_send"
    /\ \E n \in 0..1 :
          LET r == tg_request(inv[i], <<Send(inv[i].chat, "enter_phone")>>,
                              n, "put_session")
          IN  /\ session' = PutSessionAwaitPhone(r)
              /\ Step(i, AfterPutSession(r))
    /\ UNCHANGED <<profile, utrip, meta, events, cfDone, drvReq, paxNote, listing>>

\* ---------------------------------------------- drop-off text: save_trip
\* now_ts() when a trip is created: later than every stored creation time.
Now ==
    LET C == {utrip[u][t].created_at : u \in Users, t \in DOMAIN utrip[Owner]}
    IN  1 + (CHOOSE c \in C : \A d \in C : d <= c)

\* The ids random.choices can return that no stored trip has yet.
FreshIds == {t \in ListIds : ~meta[t].exists /\ \A u \in Users : ~utrip[u][t].exists}

GeoOutcomes == {"ok", "nodep", "nodest", "noroute"}

ListCanStart(i) == Free(i) /\ events < MaxListEvents

\* Text typed while the session state is await_dropoff: geocode_once for
\* both addresses and calc_route (geo is their outcome).
DropoffStart(i, u, geo) ==
    /\ ListCanStart(i)
    /\ session[u][1] = "await_dropoff"
    /\ FreshIds # {}
    /\ Step(i, [Begin("dropoff", u, 0) EXCEPT
                   !.st = geo,
                   !.pc = IF geo = "ok" THEN "sv_user" ELSE "dr_fail"])
    /\ events' = events + 1
    /\ UNCHANGED <<session, profile, utrip, meta, cfDone, drvReq, paxNote, listing>>

\* "Could not find ..." / "Could not calculate the route ...",
\* clear_session(user_id), show_menu(chat_id)
DropoffFail(i) ==
    /\ inv[i].pc = "dr_fail"
    /\ \E n \in 0..2 :
          LET c == inv[i].chat
              r == tg_request(inv[i], <<Send(c, inv[i].st), Send(c, "menu")>>,
                              n, "done")
          IN  /\ session' = IF n >= 1 THEN [session EXCEPT ![c] = NoSession]
                            ELSE session
              /\ Step(i, [r EXCEPT !.wrote = IF n >= 1 THEN {"session"} ELSE {}])
    /\ UNCHANGED <<profile, utrip, meta, events, cfDone, drvReq, paxNote, listing>>

\* save_trip: tid = random id, created = now_ts(), put_item of the
\* USER#<user_id>/TRIP#<tid> item.
SaveTripUser(i) ==
    /\ inv[i].pc = "sv_user"
    /\ \E tid \in FreshIds :
          /\ utrip' = [utrip EXCEPT ![inv[i].chat][tid] = NewUTrip(inv[i].chat, Now)]
          /\ Step(i, [inv[i] EXCEPT !.trip = tid, !.epoch = Now, !.pc = "sv_meta",
                                    !.wrote = @ \cup {"user_item"}])
    /\ UNCHANGED <<session, profile, meta, events, cfDone, drvReq, paxNote, listing>>

\* save_trip: put_item of the TRIP#<tid>/META item, same created_at.
SaveTripMeta(i) ==
    /\ inv[i].pc = "sv_meta"
    /\ meta' = [meta EXCEPT ![inv[i].trip] = NewMeta(inv[i].chat, inv[i].epoch)]
    /\ Step(i, [inv[i] EXCEPT !.pc = "dr_send", !.wrote = @ \cup {"meta_item"}])
    /\ UNCHANGED <<session, profile, utrip, events, cfDone, drvReq, paxNote, listing>>

\* The ride summary with the date picker button, then
\* put_session(user_id, f"await_when:{trip_id}", {})
DropoffSend(i) ==
    /\ inv[i].pc = "dr_send"
    /\ \E n \in 0..1 :
          LET r == tg_request(inv[i], <<Send(inv[i].chat, "summary")>>, n, "done")
          IN  /\ session' = IF n = 1
                            THEN [session EXCEPT ![r.chat] = <<"await_when", r.trip>>]
                            ELSE session
              /\ Step(i, [r EXCEPT !.wrote = IF n = 1 THEN @ \cup {"session"} ELSE @])
    /\ UNCHANGED <<profile, utrip, meta, events, cfDone, drvReq, paxNote, listing>>

\* ---------------------------------------------------- list_recent_trips
\* The ids of S from the greatest down: the order of a query with
\* ScanIndexForward=False over the sort keys "TRIP#<id>".
RECURSIVE Descending(_)
Descending(S) ==
    IF S = {} THEN <<>>
    ELSE LET top == CHOOSE t \in S : \A x \in S : x <= t
         IN  <<top>> \o Descending(S \ {top})

\* The first n elements of q, or all of q when it is shorter.
Limit(q, n) == SubSeq(q, 1, IF Len(q) < n THEN Len(q) ELSE n)

\* table.query(pk = USER#<user_id>, sk begins_with TRIP#,
\*             ScanIndexForward=False, Limit=5)
list_recent_trips(u) ==
    Limit(Descending({t \in DOMAIN utrip[u] : utrip[u][t].exists}), ListLimit)

NoListing == [user |-> 0, items |-> <<>>, had |-> <<>>]

\* "/mytrips": the query.  listing keeps what it returned together with the
\* user's trip items as they were when it ran.
MytripsStart(i, u) ==
    /\ ListCanStart(i)
    /\ listing' = [user |-> u, items |-> list_recent_trips(u), had |-> utrip[u]]
    /\ Step(i, [Begin("mytrips", u, 0) EXCEPT
                   !.pc = IF list_recent_trips(u) = <<>> THEN "mt_empty"
                          ELSE "mt_items"])
    /\ events' = events + 1
    /\ UNCHANGED <<session, profile, utrip, meta, cfDone, drvReq, paxNote>>

\* "You have no trips yet." or the rendered list, then show_menu(chat_id)
MytripsSend(i) ==
    /\ inv[i].pc \in {"mt_empty", "mt_items"}
    /\ \E n \in 0..2 :
          Step(i, tg_request(inv[i],
                             <<Send(inv[i].chat, IF inv[i].pc = "mt_empty"
                                                 THEN "no_trips" ELSE "trips"),
                               Send(inv[i].chat, "menu")>>, n, "done"))
    /\ UNCHANGED <<session, profile, utrip, meta, events, cfDone, drvReq, paxNote, listing>>

\* ------------------------------------------------ callback payloads
\* A callback payload "<verb>:<f2>[:<f3>...]" by what the handler tests of
\* it: the verb before the first colon, the number of colon-separated
\* fields, and whether the date or epoch field parses as numbers.
Payload(verb, fields, num) == [verb |-> verb, fields |-> fields, num |-> num]

\* How the handler gets through the split of the payload:
\*   datepick: _, trip_id, iso_d = data.split(":") ; map(int, iso_d.split("-"))
\*   timepick: _, trip_id, epoch = data.split(":") ; int(epoch)
\*     neither is inside a try block
\*   accept / decline: the split is inside try ... except ValueError: return
\*   any other verb: no branch is taken, the default response is returned
ParsePayload(p) ==
    IF p.verb \in {"datepick", "timepick"}
    THEN IF p.fields = 3 /\ p.num THEN "ok" ELSE "raise"
    ELSE IF p.verb \in {"accept", "decline"}
    THEN IF p.fields = 3 THEN "ok" ELSE "return"
    ELSE "return"

\* Payloads that do not have the form the verb's buttons carry, and
\* payloads of no known verb.
BadPayloads ==
    {p \in [verb : {"datepick", "timepick", "accept", "decline", "other"},
            fields : 2..4, num : BOOLEAN] :
        ParsePayload(p) # "ok" /\ (p.verb = "other" => p.fields = 2 /\ p.num)}

\* json.loads(body) raises: logged, the success response is returned.
BadBody(i) ==
    /\ CanStart(i)
    /\ Step(i, [Begin("badbody", 0, 0) EXCEPT !.pc = "done"])
    /\ events' = events + 1
    /\ UNCHANGED <<session, profile, utrip, meta, cfDone, drvReq, paxNote, listing>>

\* A callback whose payload the handler cannot use: it returns the default
\* response or the split raises.
BadCallback(i, p) ==
    /\ CanStart(i)
    /\ Step(i, [Begin(p.verb, Owner, 0) EXCEPT
                   !.st = "malformed",
                   !.pc = IF ParsePayload(p) = "raise" THEN "crashed" ELSE "done"])
    /\ events' = events + 1
    /\ UNCHANGED <<session, profile, utrip, meta, cfDone, drvReq, paxNote, listing>>

\* ------------------------------------------------------------- datepick
\* data.startswith("datepick:") with a payload that parses
DatepickStart(i, t) ==
    /\ CanStart(i)
    /\ Step(i, [Begin("datepick", Owner, t) EXCEPT !.pc = "dp_edit"])
    /\ events' = events + 1
    /\ UNCHANGED <<session, profile, utrip, meta, cfDone, drvReq, paxNote, listing>>

\* try: tg_edit_text("Date: ...")  except: tg_edit_reply_markup_clear(...)
\* The edit returns, or it raises and the fallback returns, or both raise.
DatepickEdit(i) ==
    /\ inv[i].pc = "dp_edit"
    /\ \E k \in {"edited", "cleared", "raised"} :
          LET c == inv[i].chat
              calls == IF k = "edited" THEN <<EditText(c, "date")>>
                       ELSE <<EditText(c, "date"), ClearButtons(c)>>
          IN  Step(i, [inv[i] EXCEPT !.out = @ \o calls,
                                     !.pc = IF k = "raised" THEN "crashed"
                                            ELSE "dp_send"])
    /\ UNCHANGED <<session, profile, utrip, meta, events, cfDone, drvReq, paxNote, listing>>

\* kb = build_time_buttons(...) ; "Choose a time for <date>:"
DatepickSend(i) ==
    /\ inv[i].pc = "dp_send"
    /\ \E n \in 0..1 :
          Step(i, tg_request(inv[i], <<Send(inv[i].chat, "choose_time")>>, n, "done"))
    /\ UNCHANGED <<session, profile, utrip, meta, events, cfDone, drvReq, paxNote, listing>>

\* An accept payload that names a trip without a META item.
AcceptUnknownTrip(i, t, d) ==
    /\ CanStart(i)
    /\ ~meta[t].exists
    /\ Step(i, [Begin("accept", d, t) EXCEPT
                   !.drv = d, !.m = meta[t], !.pc = AcceptBranch(meta[t])])
    /\ events' = events + 1
    /\ UNCHANGED <<session, profile, utrip, meta, cfDone, drvReq, paxNote, listing>>

\* ------------------------------------------------------- text messages
\* A message text as the sequence of its characters.
Digits == {"0", "1", "2", "3", "4", "5", "6", "7", "8", "9"}

\* The string made of the characters of s.
RECURSIVE Concat(_)
Concat(s) == IF s = <<>> THEN "" ELSE Head(s) \o Concat(Tail(s))

\* normalize_phone: "" stands for None.
\*   digits = re.sub(r"[^\d+]", "", text)   ; +<8..15 digits> is kept
\*   only = re.sub(r"\D", "", digits)       ; 10 digits -> "+1" + only
\*                                          ; 1 + 10 digits -> "+" + only
normalize_phone(text) ==
    LET digits == SelectSeq(text, LAMBDA c : c \in Digits \cup {"+"})
        only == SelectSeq(digits, LAMBDA c : c \in Digits)
    IN  IF text = <<>> THEN ""
        ELSE IF /\ digits # <<>> /\ Head(digits) = "+"
                /\ \A k \in 2..Len(digits) : digits[k] \in Digits
                /\ Len(digits) - 1 >= 8 /\ Len(digits) - 1 <= 15
             THEN Concat(digits)
        ELSE IF Len(only) = 10 THEN "+1" \o Concat(only)
        ELSE IF Len(only) = 11 /\ only[1] = "1" THEN "+" \o Concat(only)
        ELSE ""

\* Texts a user types that are no command: "850 555 1234" and "call me".
PhoneTexts ==
    { <<"8", "5", "0", " ", "5", "5", "5", " ", "1", "2", "3", "4">>,
      <<"c", "a", "l", "l", " ", "m", "e">> }

\* A clear_session that leaves the item in place.
ClearSessionKeeps(u) == session

\* clear_session: delete_item of USER#<u>/SESSION
ClearSession(u) == [session EXCEPT ![u] = NoSession]

\* The test of TextBranch for the picker states, had it compared the whole
\* state string with "await_when".
TextBranchExactMatch(state) ==
    IF state = <<"await_when">> THEN "tx_picker"
    ELSE IF state[1] = "await_phone" THEN "tx_phone"
    ELSE IF state[1] = "await_pickup" THEN "tx_pickup"
    ELSE IF state[1] = "await_dropoff" THEN "tx_dropoff"
    ELSE "tx_menu"

\* The branch of the message handler for a text that is no command, by the
\* session state: state.startswith("await_when:"), "await_phone:",
\* == "await_pickup", == "await_dropoff", else show_menu.
TextBranch(state) ==
    IF state[1] = "await_when" /\ Len(state) = 2 THEN "tx_picker"
    ELSE IF state[1] = "await_phone" THEN "tx_phone"
    ELSE IF state[1] = "await_pickup" THEN "tx_pickup"
    ELSE IF state[1] = "await_dropoff" THEN "tx_dropoff"
    ELSE "tx_menu"

\* session = get_session(user_id) ; the branch on its state.  In state
\* await_phone:<id>: phone = normalize_phone(text)
TextStart(i, u, text) ==
    /\ CanStart(i)
    /\ TextBranch(session[u]) \in {"tx_picker", "tx_phone", "tx_menu"}
    /\ LET b == TextBranch(session[u])
           phone == IF b = "tx_phone" THEN normalize_phone(text) ELSE ""
       IN  Step(i, [Begin("text", u, IF Len(session[u]) = 2 THEN session[u][2] ELSE 0)
                    EXCEPT !.st = session[u][1], !.saved = phone,
                           !.pc = IF b # "tx_phone" THEN b
                                  ELSE IF phone = "" THEN "ph_bad" ELSE "ph_trip"])
    /\ events' = events + 1
    /\ UNCHANGED <<session, profile, utrip, meta, cfDone, drvReq, paxNote, listing>>

\* "Please use Pick date & time."
TextPicker(i) ==
    /\ inv[i].pc = "tx_picker"
    /\ \E n \in 0..1 :
          Step(i, tg_request(inv[i], <<Send(inv[i].chat, "use_picker")>>, n, "done"))
    /\ UNCHANGED <<session, profile, utrip, meta, events, cfDone, drvReq, paxNote, listing>>

\* Fallback: show_menu(chat_id)
TextMenu(i) ==
    /\ inv[i].pc = "tx_menu"
    /\ \E n \in 0..1 :
          Step(i, tg_request(inv[i], <<Send(inv[i].chat, "menu")>>, n, "done"))
    /\ UNCHANGED <<session, profile, utrip, meta, events, cfDone, drvReq, paxNote, listing>>

\* "Phone format is invalid. Please enter like +1 850 555 1234."
PhoneBad(i) ==
    /\ inv[i].pc = "ph_bad"
    /\ \E n \in 0..1 :
          Step(i, tg_request(inv[i], <<Send(inv[i].chat, "bad_phone")>>, n, "done"))
    /\ UNCHANGED <<session, profile, utrip, meta, events, cfDone, drvReq, paxNote, listing>>

\* set_trip_phone(trip_id, phone)
PhoneSetTrip(i) ==
    /\ inv[i].pc = "ph_trip"
    /\ meta' = [meta EXCEPT ![inv[i].trip] = SetPhoneItem(@, inv[i].saved)]
    /\ Step(i, [inv[i] EXCEPT !.pc = "ph_profile",
                              !.wrote = @ \cup {"meta_phone"}])
    /\ UNCHANGED <<session, profile, utrip, events, cfDone, drvReq, paxNote, listing>>

\* set_profile_phone(user_id, phone)
PhoneSetProfile(i) ==
    /\ inv[i].pc = "ph_profile"
    /\ profile' = [profile EXCEPT ![inv[i].chat] = inv[i].saved]
    /\ Step(i, [inv[i] EXCEPT !.pc = "ph_send",
                              !.wrote = @ \cup {"profile"}])
    /\ UNCHANGED <<session, utrip, meta, events, cfDone, drvReq, paxNote, listing>>

\* meta = get_trip_meta(trip_id) ; "Thanks! Phone saved ... Ready to confirm
\* ride #<id>?" with the Confirm button ; clear_session(user_id)
PhoneSend(i) ==
    /\ inv[i].pc = "ph_send"
    /\ \E n \in 0..1 :
          LET r == tg_request(inv[i], <<Send(inv[i].chat, "ready_to_confirm")>>,
                              n, "done")
          IN  /\ session' = IF n = 1 THEN ClearSession(r.chat) ELSE session
              /\ Step(i, [r EXCEPT !.m = meta[r.trip],
                                   !.wrote = IF n = 1 THEN @ \cup {"session"} ELSE @])
    /\ UNCHANGED <<profile, utrip, meta, events, cfDone, drvReq, paxNote, listing>>

\* ------------------------------------------------- /newride, the pickup
\* text in ("/newride", "New ride"): clear_session(user_id).  st keeps the
\* state the command arrived in.
NewrideCmd(i, u) ==
    /\ CanStart(i)
    /\ session' = ClearSession(u)
    /\ Step(i, [Begin("newride", u, 0) EXCEPT
                   !.st = session[u][1], !.pc = "nr_send", !.wrote = {"session"}])
    /\ events' = events + 1
    /\ UNCHANGED <<profile, utrip, meta, cfDone, drvReq, paxNote, listing>>

\* "Please enter the pickup address." ; put_session(user_id, "await_pickup", {})
NewrideSend(i) ==
    /\ inv[i].pc = "nr_send"
    /\ \E n \in 0..1 :
          LET c == inv[i].chat
          IN  /\ session' = IF n = 1 THEN [session EXCEPT ![c] = <<"await_pickup">>]
                            ELSE session
              /\ Step(i, tg_request(inv[i], <<Send(c, "enter_pickup")>>, n, "done"))
    /\ UNCHANGED <<profile, utrip, meta, events, cfDone, drvReq, paxNote, listing>>

\* What arrives as text while the session state is await_pickup and is no
\* command: an address, or "" for a message that has no text (a photo, a
\* sticker): text = (msg.get("text") or "").strip()
PickupTexts == {PickupAddress, ""}

\* state == "await_pickup":
\*   put_session(user_id, "await_dropoff", {"pickup_raw": text})
\* saved keeps the text that arrived.
PickupStart(i, u, text) ==
    /\ CanStart(i)
    /\ TextBranch(session[u]) = "tx_pickup"
    /\ session' = [session EXCEPT ![u] = <<"await_dropoff", text>>]
    /\ Step(i, [Begin("pickup", u, 0) EXCEPT
                   !.st = session[u][1], !.saved = text, !.pc = "pk_send",
                   !.wrote = {"session"}])
    /\ events' = events + 1
    /\ UNCHANGED <<profile, utrip, meta, cfDone, drvReq, paxNote, listing>>

\* "Got it. Now enter the drop-off address:"
PickupSend(i) ==
    /\ inv[i].pc = "pk_send"
    /\ \E n \in 0..1 :
          Step(i, tg_request(inv[i], <<Send(inv[i].chat, "enter_dropoff")>>, n, "done"))
    /\ UNCHANGED <<session, profile, utrip, meta, events, cfDone, drvReq, paxNote, listing>>

\* ------------------------------------------------------- /start, /menu
\* text in ("/start", "/menu"): clear_session(user_id).  st keeps the state
\* the command arrived in.
StartCmd(i, u) ==
    /\ CanStart(i)
    /\ session' = ClearSession(u)
    /\ Step(i, [Begin("start", u, 0) EXCEPT
                   !.st = session[u][1], !.pc = "sc_send", !.wrote = {"session"}])
    /\ events' = events + 1
    /\ UNCHANGED <<profile, utrip, meta, cfDone, drvReq, paxNote, listing>>

\* tg_set_commands() ; "Hello! ..." with the main menu ;
\* put_session(user_id, "idle", {})
StartSend(i) ==
    /\ inv[i].pc = "sc_send"
    /\ \E n \in 0..2 :
          LET c == inv[i].chat
              r == tg_request(inv[i],
                              <<Call("commands", 0, "commands", "", NoDriver),
                                Send(c, "hello")>>, n, "done")
          IN  /\ session' = IF n = 2 THEN [session EXCEPT ![c] = <<"idle">>]
                            ELSE session
              /\ Step(i, r)
    /\ UNCHANGED <<profile, utrip, meta, events, cfDone, drvReq, paxNote, listing>>

\* ------------------------------------------------------- specification
\* A trip of Owner as the booking flow leaves it between two events:
\*   fresh    - just created by the drop-off message (save_trip)
\*   timeonly - time picked, the user (no saved phone) is asked for a phone
\*   ready    - time picked and phone typed: set_trip_phone,
\*              set_profile_phone, clear_session, Confirm button shown
\*   offered  - time picked by a user with a saved phone, who is offered
\*              to use it; the session is as the drop-off message left it
\* The time is only ever written to the META item.
Stages == {"fresh", "timeonly", "ready"}

StageMeta(stage, t) ==
    [NewMeta(Owner, t) EXCEPT
        !.desired_time = IF stage = "fresh" THEN 0 ELSE PickedTime,
        !.passenger_phone = IF stage = "ready" THEN SavedPhone ELSE ""]

StageSession(stage, t) ==
    CASE stage \in {"fresh", "offered"} -> <<"await_when", t>>
      [] stage = "timeonly" -> <<"await_phone", t>>
      [] OTHER -> NoSession

InitStage(stage, saved) ==
    /\ \E t \in TripIds :
          session = [u \in Users |->
                        IF u = Owner THEN StageSession(stage, t) ELSE NoSession]
    /\ profile = [u \in Users |-> IF u = Owner THEN saved ELSE ""]
    /\ meta = [t \in TripIds |-> StageMeta(stage, t)]
    /\ utrip = [u \in Users |-> [t \in TripIds |->
                   IF u = Owner THEN NewUTrip(Owner, t) ELSE NoUTrip]]
    /\ inv = [i \in Invs |-> IdleInv]
    /\ last = IdleInv
    /\ events = 0
    /\ cfDone = {}
    /\ drvReq = [t \in TripIds |-> [d \in Drivers |-> 0]]
    /\ paxNote = [t \in TripIds |-> [acc |-> [d \in Drivers |-> 0], dec |-> 0]]
    /\ listing = NoListing
    /\ failed = FALSE
    /\ calc = NoCalc
    /\ cfShown = IF stage = "ready" THEN TripIds ELSE {}

\* Dispatch: confirm, accept and decline events on a created trip, handled
\* by concurrent invocations.
Init ==
    \E stage \in Stages :
        InitStage(stage, IF stage = "ready" THEN SavedPhone ELSE "")

Next ==
    \/ \E i \in Invs, t \in TripIds : ConfirmStart(i, t)
    \/ \E i \in Invs : ConfirmPrompt(i)
    \/ \E i \in Invs : ConfirmAlready(i)
    \/ \E i \in Invs : ConfirmBroadcast(i)
    \/ \E i \in Invs : SetTripStatusMeta(i)
    \/ \E i \in Invs : SetTripStatusUser(i)
    \/ \E i \in Invs, t \in TripIds, d \in Drivers : AcceptStart(i, t, d)
    \/ \E i \in Invs : AcceptTaken(i)
    \/ \E i \in Invs : AcceptSetDriver(i)
    \/ \E i \in Invs : AcceptNotify(i)
    \/ \E i \in Invs, t \in TripIds, d \in Drivers : DeclineStart(i, t, d)
    \/ \E i \in Invs : DeclineEdit(i)
    \/ \E i \in Invs : DeclineNotifyPassenger(i)

Spec == Init /\ [][Next]_vars

\* Booking: the time and phone buttons tapped on a fresh trip, by a user
\* with or without a saved phone.
InitBook ==
    \E saved \in {"", SavedPhone} : InitStage("fresh", saved)

NextBook ==
    \/ \E i \in Invs, t \in TripIds, e \in EpochChoices : TimepickStart(i, t, e)
    \/ \E i \in Invs : TimepickEdit(i)
    \/ \E i \in Invs : AfterWhenAskPhoneOrProfile(i)
    \/ \E i \in Invs, t \in TripIds : UsephoneStart(i, t)
    \/ \E i \in Invs : UsephoneNoPhone(i)
    \/ \E i \in Invs : UsephoneSetPhone(i)
    \/ \E i \in Invs : UsephoneSend(i)
    \/ \E i \in Invs, t \in TripIds : ChangephoneStart(i, t)
    \/ \E i \in Invs : ChangephoneSend(i)

SpecBook == InitBook /\ [][NextBook]_vars

\* Listing: a user with a history of trips, whose ids were drawn in any
\* order, types a drop-off address or asks for the list of trips.
MaxHistory == MaxListIds

Histories ==
    {h \in UNION {[1..n -> ListIds] : n \in 0..MaxHistory} :
        \A a, b \in DOMAIN h : a # b => h[a] # h[b]}

\* The items save_trip has put when the trips h[1], h[2], ... were created
\* in this order, one per tick of the clock.
HistoryUTrip(h) ==
    [t \in ListIds |->
        IF \E k \in DOMAIN h : h[k] = t
        THEN NewUTrip(Owner, CHOOSE k \in DOMAIN h : h[k] = t)
        ELSE NoUTrip]

HistoryMeta(h) ==
    [t \in ListIds |->
        IF \E k \in DOMAIN h : h[k] = t
        THEN NewMeta(Owner, CHOOSE k \in DOMAIN h : h[k] = t)
        ELSE NoMeta]

InitList ==
    /\ \E h \in Histories :
          /\ utrip = [u \in Users |->
                         IF u = Owner THEN HistoryUTrip(h)
                         ELSE [t \in ListIds |-> NoUTrip]]
          /\ meta = HistoryMeta(h)
    /\ session = [u \in Users |->
                     IF u = Owner THEN <<"await_dropoff", PickupAddress>>
                     ELSE NoSession]
    /\ profile = [u \in Users |-> ""]
    /\ inv = [i \in Invs |-> IdleInv]
    /\ last = IdleInv
    /\ events = 0
    /\ cfDone = {}
    /\ drvReq = [t \in TripIds |-> [d \in Drivers |-> 0]]
    /\ paxNote = [t \in TripIds |-> [acc |-> [d \in Drivers |-> 0], dec |-> 0]]
    /\ listing = NoListing
    /\ failed = FALSE
    /\ calc = NoCalc
    /\ cfShown = {}

NextList ==
    \/ \E i \in Invs, u \in Users, geo \in GeoOutcomes : DropoffStart(i, u, geo)
    \/ \E i \in Invs : DropoffFail(i)
    \/ \E i \in Invs : SaveTripUser(i)
    \/ \E i \in Invs : SaveTripMeta(i)
    \/ \E i \in Invs : DropoffSend(i)
    \/ \E i \in Invs, u \in Users : MytripsStart(i, u)
    \/ \E i \in Invs : MytripsSend(i)

SpecList == InitList /\ [][NextList]_vars

\* Messages: texts and /start typed in any session state of a user whose
\* trip is somewhere in the booking flow.
SessionStates(stage, t) ==
    {StageSession(stage, t), <<"idle">>, <<"await_pickup">>,
     <<"await_dropoff", PickupAddress>>}

InitText ==
    /\ \E stage \in Stages, t \in TripIds :
          /\ \E s \in SessionStates(stage, t) :
                session = [u \in Users |-> IF u = Owner THEN s ELSE NoSession]
          /\ profile = [u \in Users |->
                           IF u = Owner /\ stage = "ready" THEN SavedPhone ELSE ""]
          /\ meta = [x \in TripIds |-> StageMeta(stage, x)]
          /\ cfShown = IF stage = "ready" THEN TripIds ELSE {}
    /\ utrip = [u \in Users |-> [t \in TripIds |->
                   IF u = Owner THEN NewUTrip(Owner, t) ELSE NoUTrip]]
    /\ inv = [i \in Invs |-> IdleInv]
    /\ last = IdleInv
    /\ events = 0
    /\ cfDone = {}
    /\ drvReq = [t \in TripIds |-> [d \in Drivers |-> 0]]
    /\ paxNote = [t \in TripIds |-> [acc |-> [d \in Drivers |-> 0], dec |-> 0]]
    /\ listing = NoListing
    /\ failed = FALSE
    /\ calc = NoCalc

NextText ==
    \/ \E i \in Invs, u \in Users, text \in PhoneTexts : TextStart(i, u, text)
    \/ \E i \in Invs : TextPicker(i)
    \/ \E i \in Invs : TextMenu(i)
    \/ \E i \in Invs : PhoneBad(i)
    \/ \E i \in Invs : PhoneSetTrip(i)
    \/ \E i \in Invs : PhoneSetProfile(i)
    \/ \E i \in Invs : PhoneSend(i)
    \/ \E i \in Invs, u \in Users : StartCmd(i, u)
    \/ \E i \in Invs : StartSend(i)
    \/ \E i \in Invs, u \in Users : NewrideCmd(i, u)
    \/ \E i \in Invs : NewrideSend(i)
    \/ \E i \in Invs, u \in Users, text \in PickupTexts : PickupStart(i, u, text)
    \/ \E i \in Invs : PickupSend(i)

SpecText == InitText /\ [][NextText]_vars

\* Edge events: unparsable bodies, payloads the handler cannot use, the
\* date button, and accept payloads for a trip that has no record.
InitEdge ==
    /\ session = [u \in Users |-> NoSession]
    /\ profile = [u \in Users |-> ""]
    /\ meta = [t \in TripIds |-> NoMeta]
    /\ utrip = [u \in Users |-> [t \in TripIds |-> NoUTrip]]
    /\ inv = [i \in Invs |-> IdleInv]
    /\ last = IdleInv
    /\ events = 0
    /\ cfDone = {}
    /\ drvReq = [t \in TripIds |-> [d \in Drivers |-> 0]]
    /\ paxNote = [t \in TripIds |-> [acc |-> [d \in Drivers |-> 0], dec |-> 0]]
    /\ listing = NoListing
    /\ failed = FALSE
    /\ calc = NoCalc
    /\ cfShown = {}

NextEdge ==
    \/ \E i \in Invs : BadBody(i)
    \/ \E i \in Invs, p \in BadPayloads : BadCallback(i, p)
    \/ \E i \in Invs, t \in TripIds : DatepickStart(i, t)
    \/ \E i \in Invs : DatepickEdit(i)
    \/ \E i \in Invs : DatepickSend(i)
    \/ \E i \in Invs, t \in TripIds, d \in Drivers : AcceptUnknownTrip(i, t, d)
    \/ \E i \in Invs : AcceptNotFound(i)

SpecEdge == InitEdge /\ [][NextEdge]_vars

\* ------------------------------------------------------------- calc_fare
\* Money is in cents, a distance in hundredths of a mile, a duration in
\* minutes.  The defaults of FARE_MINIMUM, SHORT_TRIP_MILES_THRESHOLD and
\* SHORT_TRIP_MINIMUM.
FARE_MINIMUM == 800
SHORT_TRIP_MILES_THRESHOLD == 500
SHORT_TRIP_MINIMUM == 1000

\* The environment read at cold start: FARE_BASE, FARE_PER_MILE,
\* FARE_PER_MIN, FARE_FEE at their defaults, at zero, and a per-mile rate
\* of one cent.
FareConfigs ==
    [base : {0, 300}, per_mile : {0, 1, 250}, per_min : {0, 40}, fee : {0, 100}]

\* Distances (0, 1.86, 4.98, 5.00, 8.32 miles) and durations handed to
\* calc_fare.
FareMiles == {0, 186, 498, 500, 832}
FareMinutes == {0, 10, 45}

Max(a, b) == IF a >= b THEN a ELSE b

\* round(x, 2) of an amount x given in hundredths of a cent.
Round2(x) == (x + 50) \div 100

\* FARE_BASE + miles * FARE_PER_MILE + minutes * FARE_PER_MIN + FARE_FEE, in
\* hundredths of a cent.
RawFare(cfg, miles, minutes) ==
    100 * cfg.base + miles * cfg.per_mile + 100 * minutes * cfg.per_min
    + 100 * cfg.fee

\* calc_fare without the floor FARE_MINIMUM.
calc_fareNoMinimum(cfg, miles, minutes) ==
    LET fare == RawFare(cfg, miles, minutes)
    IN  Round2(IF miles < SHORT_TRIP_MILES_THRESHOLD
               THEN Max(fare, 100 * SHORT_TRIP_MINIMUM) ELSE fare)

\* calc_fare: fare = max(fare, FARE_MINIMUM) ; below the threshold
\* fare = max(fare, SHORT_TRIP_MINIMUM) ; round(fare, 2)
calc_fare(cfg, miles, minutes) ==
    LET fare == Max(RawFare(cfg, miles, minutes), 100 * FARE_MINIMUM)
    IN  Round2(IF miles < SHORT_TRIP_MILES_THRESHOLD
               THEN Max(fare, 100 * SHORT_TRIP_MINIMUM) ELSE fare)

\* One call of calc_fare.
CalcFare(miles, minutes) ==
    /\ calc.fn = "calc_fare"
    /\ calc' = [calc EXCEPT !.arg = <<miles, minutes>>,
                            !.res = calc_fare(calc.cfg, miles, minutes)]
    /\ UNCHANGED <<session, profile, utrip, meta, inv, last, events, cfDone,
                   drvReq, paxNote, listing, failed, cfShown>>

\* The state of the store and of the invocations while a helper is looked
\* at on its own: nothing stored, nothing running.
InitHelper ==
    /\ session = [u \in Users |-> NoSession]
    /\ profile = [u \in Users |-> ""]
    /\ meta = [t \in TripIds |-> NoMeta]
    /\ utrip = [u \in Users |-> [t \in TripIds |-> NoUTrip]]
    /\ inv = [i \in Invs |-> IdleInv]
    /\ last = IdleInv
    /\ events = 0
    /\ cfDone = {}
    /\ drvReq = [t \in TripIds |-> [d \in Drivers |-> 0]]
    /\ paxNote = [t \in TripIds |-> [acc |-> [d \in Drivers |-> 0], dec |-> 0]]
    /\ listing = NoListing
    /\ failed = FALSE
    /\ cfShown = {}

\* Fares: calc_fare under every configuration of FareConfigs.
InitFare ==
    /\ InitHelper
    /\ \E cfg \in FareConfigs : calc = [NoCalc EXCEPT !.fn = "calc_fare", !.cfg = cfg]

NextFare ==
    \E miles \in FareMiles, minutes \in FareMinutes : CalcFare(miles, minutes)

SpecFare == InitFare /\ [][NextFare]_vars

\* ---------------------------------------------------------- round_to_15m
\* Wall-clock times handed to round_to_15m, in seconds since midnight of
\* day 0: every minute of the hours 0, 6 and 23, at seconds 0, 30 and 59.
RoundTimes ==
    {h * 3600 + m * 60 + sec : h \in {0, 6, 23}, m \in 0..59, sec \in {0, 30, 59}}

\* dt.day, dt.hour, dt.minute, dt.second of a wall-clock time
DayOf(t) == t \div 86400
HourOf(t) == (t \div 3600) % 24
MinuteOf(t) == (t \div 60) % 60
SecondOf(t) == t % 60

\* round_to_15m(dt) for a fresh dt
RoundOnce(t) ==
    /\ calc.fn = "round_to_15m"
    /\ calc' = [calc EXCEPT !.arg = <<t>>, !.res = <<round_to_15m(t)>>]
    /\ UNCHANGED <<session, profile, utrip, meta, inv, last, events, cfDone,
                   drvReq, paxNote, listing, failed, cfShown>>

\* round_to_15m applied to what it returned
RoundAgain ==
    /\ calc.fn = "round_to_15m"
    /\ Len(calc.res) = 1
    /\ calc' = [calc EXCEPT !.res = @ \o <<round_to_15m(@[1])>>]
    /\ UNCHANGED <<session, profile, utrip, meta, inv, last, events, cfDone,
                   drvReq, paxNote, listing, failed, cfShown>>

InitRound ==
    /\ InitHelper
    /\ calc = [NoCalc EXCEPT !.fn = "round_to_15m"]

NextRound ==
    \/ \E t \in RoundTimes : RoundOnce(t)
    \/ RoundAgain

SpecRound == InitRound /\ [][NextRound]_vars

\* ----------------------------------------------------- build_time_buttons
\* A date (y, m, d) by the number of its day and by what the clock of the
\* display timezone (America/Chicago) does on it: standard time, daylight
\* time, or the change to one of them at 2:00.
MaxSlotDay == 4
DayKinds == {"standard", "spring", "daylight", "fall"}
SlotDates == [day : 0..MaxSlotDay, kind : DayKinds]

\* Seconds to add to a wall-clock time of the date to get UTC (the zone's
\* UTC offset, negated): 6 hours in standard and 5 in daylight time.
UtcOffset(date, wall) ==
    CASE date.kind = "standard" -> 21600
      [] date.kind = "daylight" -> 18000
      [] date.kind = "spring" -> IF wall < 7200 THEN 21600 ELSE 18000
      [] OTHER -> IF wall < 7200 THEN 18000 ELSE 21600

\* int(cur.timestamp()) for the wall-clock time wall (seconds since
\* midnight) of the date
Timestamp(date, wall) == date.day * 86400 + wall + UtcOffset(date, wall)

\* The loop  while cur <= end: rows.append(...) ; cur += 30 minutes  from
\* cur on, with end = 23:59; cur and end compare as wall-clock times.
RECURSIVE SlotRows(_, _, _)
SlotRows(trip_id, date, cur) ==
    IF cur <= 23 * 3600 + 59 * 60
    THEN <<[verb |-> "timepick", trip |-> trip_id, wall |-> cur,
            epoch |-> Timestamp(date, cur)]>>
         \o SlotRows(trip_id, date, cur + 30 * 60)
    ELSE <<>>

\* if not rows: "No times available"
OrPlaceholder(rows, trip_id) ==
    IF rows = <<>>
    THEN <<[verb |-> "datesel", trip |-> trip_id, wall |-> 0, epoch |-> 0]>>
    ELSE rows

\* build_time_buttons with the window starting at midnight.
build_time_buttonsFromMidnight(trip_id, date) ==
    OrPlaceholder(SlotRows(trip_id, date, 0), trip_id)

\* build_time_buttons(trip_id, y, m, d): start = 6:00
build_time_buttons(trip_id, date) ==
    OrPlaceholder(SlotRows(trip_id, date, 6 * 3600), trip_id)

\* One call of build_time_buttons.
BuildTimeButtons(trip_id, date) ==
    /\ calc.fn = "build_time_buttons"
    /\ calc' = [calc EXCEPT !.arg = <<trip_id, date>>,
                            !.res = build_time_buttons(trip_id, date)]
    /\ UNCHANGED <<session, profile, utrip, meta, inv, last, events, cfDone,
                   drvReq, paxNote, listing, failed, cfShown>>

InitSlots ==
    /\ InitHelper
    /\ calc = [NoCalc EXCEPT !.fn = "build_time_buttons"]

NextSlots ==
    \E trip_id \in ListIds, date \in SlotDates : BuildTimeButtons(trip_id, date)

SpecSlots == InitSlots /\ [][NextSlots]_vars

\* ------------------------------------------------ normalize_phone, alone
\* The longest runs of digits in a text handed to normalize_phone.
MaxPhoneRun == 9
MaxPhoneTail == 7

\* n times the character c
RECURSIVE Run(_, _)
Run(c, n) == IF n = 0 THEN <<>> ELSE <<c>> \o Run(c, n - 1)

\* Texts over digits, plus and separators: an optional lead (plus signs or
\* a blank), a first digit, a run of digits, an optional separator or plus
\* sign, and a further run of digits.
PhoneInputs ==
    {lead \o <<first>> \o Run("5", n) \o mid \o Run("5", k) :
        lead \in {<<>>, <<"+">>, <<"+", "+">>, <<" ">>},
        first \in {"1", "8"},
        n \in 0..MaxPhoneRun,
        mid \in {<<>>, <<" ">>, <<"-">>, <<"+">>},
        k \in 0..MaxPhoneTail}

\* The one call of normalize_phone a text message leads to.
NormalizePhone(text) ==
    /\ calc.fn = "normalize_phone" /\ calc.arg = <<>>
    /\ calc' = [calc EXCEPT !.arg = <<text>>, !.res = normalize_phone(text)]
    /\ UNCHANGED <<session, profile, utrip, meta, inv, last, events, cfDone,
                   drvReq, paxNote, listing, failed, cfShown>>

InitPhone ==
    /\ InitHelper
    /\ calc = [NoCalc EXCEPT !.fn = "normalize_phone"]

NextPhone == \E text \in PhoneInputs : NormalizePhone(text)

SpecPhone == InitPhone /\ [][NextPhone]_vars

\* The user taps the Confirm button of a trip: there is one to tap once
\* the message "Ready to confirm ride #<id>?" got through.
ConfirmTap(i, t) ==
    /\ t \in cfShown
    /\ ConfirmStart(i, t)

\* Phone and confirm: a trip with a time, whose user either has a saved
\* phone and is offered it, or has none and is asked to type one; then the
\* use-saved-phone button, texts, and the Confirm button once it is there
\* (the trip then has its time and a phone: a confirm asks for neither).
InitFlow ==
    \/ InitStage("offered", SavedPhone)
    \/ InitStage("timeonly", "")

NextFlow ==
    \/ \E i \in Invs, t \in TripIds : UsephoneStart(i, t)
    \/ \E i \in Invs : UsephoneNoPhone(i)
    \/ \E i \in Invs : UsephoneSetPhone(i)
    \/ \E i \in Invs : UsephoneSend(i)
    \/ \E i \in Invs, u \in Users, text \in PhoneTexts : TextStart(i, u, text)
    \/ \E i \in Invs : TextPicker(i)
    \/ \E i \in Invs : TextMenu(i)
    \/ \E i \in Invs : PhoneBad(i)
    \/ \E i \in Invs : PhoneSetTrip(i)
    \/ \E i \in Invs : PhoneSetProfile(i)
    \/ \E i \in Invs : PhoneSend(i)
    \/ \E i \in Invs, t \in TripIds : ConfirmTap(i, t)
    \/ \E i \in Invs : ConfirmAlready(i)
    \/ \E i \in Invs : SetTripStatusMeta(i)
    \/ \E i \in Invs : SetTripStatusUser(i)
    \/ \E i \in Invs : ConfirmBroadcast(i)

SpecFlow == InitFlow /\ [][NextFlow]_vars

\* -------------------------------------------------------------- datesel
\* data.startswith("datesel:") ; kb = build_date_buttons(trip_id)
DateselStart(i, t) ==
    /\ CanStart(i)
    /\ Step(i, [Begin("datesel", Owner, t) EXCEPT !.pc = "ds_send"])
    /\ events' = events + 1
    /\ UNCHANGED <<session, profile, utrip, meta, cfDone, drvReq, paxNote, listing>>

\* "Choose a date:" with the date buttons
DateselSend(i) ==
    /\ inv[i].pc = "ds_send"
    /\ \E n \in 0..1 :
          Step(i, tg_request(inv[i], <<Send(inv[i].chat, "choose_date")>>, n, "done"))
    /\ UNCHANGED <<session, profile, utrip, meta, events, cfDone, drvReq, paxNote, listing>>

\* The statuses a trip has once confirm has sent it to the drivers.
Dispatched == {"pending", "accepted", "declined"}

\* A phone typed for a trip before the profile got the phone it has now.
TypedPhone == "+13055550100"

\* After dispatch: a trip of Owner that a confirm has set pending and sent
\* to the drivers, and that an accept or a decline may have settled.  The
\* messages with the picker button and with the phone buttons are still in
\* the user's chat; the session is as the phone path left it (await_when
\* after the saved phone was used, deleted after a phone was typed).
DispatchedMeta(t, status, phone) ==
    LET m == [NewMeta(Owner, t) EXCEPT !.status = status,
                                      !.desired_time = PickedTime,
                                      !.passenger_phone = phone]
    IN  IF status = "accepted" THEN SetDriverItem(m, 1) ELSE m

InitAfter ==
    /\ \E status \in Dispatched, phone \in {SavedPhone, TypedPhone} :
          /\ meta = [t \in TripIds |-> DispatchedMeta(t, status, phone)]
          /\ utrip = [u \in Users |-> [t \in TripIds |->
                         IF u = Owner
                         THEN [NewUTrip(Owner, t) EXCEPT !.status = status]
                         ELSE NoUTrip]]
    /\ \E s \in {<<"await_when", t>> : t \in TripIds} \cup {NoSession} :
          session = [u \in Users |-> IF u = Owner THEN s ELSE NoSession]
    /\ profile = [u \in Users |-> IF u = Owner THEN SavedPhone ELSE ""]
    /\ inv = [i \in Invs |-> IdleInv]
    /\ last = IdleInv
    /\ events = 0
    /\ cfDone = TripIds
    /\ drvReq = [t \in TripIds |-> [d \in Drivers |-> 1]]
    /\ paxNote = [t \in TripIds |-> [acc |-> [d \in Drivers |-> 0], dec |-> 0]]
    /\ listing = NoListing
    /\ failed = FALSE
    /\ calc = NoCalc
    /\ cfShown = TripIds

NextAfter ==
    \/ \E i \in Invs, t \in TripIds : DateselStart(i, t)
    \/ \E i \in Invs : DateselSend(i)
    \/ \E i \in Invs, t \in TripIds : DatepickStart(i, t)
    \/ \E i \in Invs : DatepickEdit(i)
    \/ \E i \in Invs : DatepickSend(i)
    \/ \E i \in Invs, t \in TripIds, e \in EpochChoices : TimepickStart(i, t, e)
    \/ \E i \in Invs : TimepickEdit(i)
    \/ \E i \in Invs : AfterWhenAskPhoneOrProfile(i)
    \/ \E i \in Invs, t \in TripIds : UsephoneStart(i, t)
    \/ \E i \in Invs : UsephoneSetPhone(i)
    \/ \E i \in Invs : UsephoneSend(i)
    \/ \E i \in Invs, t \in TripIds : ChangephoneStart(i, t)
    \/ \E i \in Invs : ChangephoneSend(i)
    \/ \E i \in Invs, text \in PhoneTexts : TextStart(i, Owner, text)
    \/ \E i \in Invs : TextPicker(i)
    \/ \E i \in Invs : TextMenu(i)
    \/ \E i \in Invs : PhoneBad(i)
    \/ \E i \in Invs : PhoneSetTrip(i)
    \/ \E i \in Invs : PhoneSetProfile(i)
    \/ \E i \in Invs : PhoneSend(i)

SpecAfter == InitAfter /\ [][NextAfter]_vars

\* ================================================================ claims
\* The invocations in flight and the one that ended last.
Recs == {inv[i] : i \in Invs} \cup {last}

Quiescent == \A i \in Invs : inv[i].pc = "idle"

Tags(r) == {r.out[k].tag : k \in 1..Len(r.out)}

Settled == {"pending", "accepted", "declined"}

\* C1: when two concurrent invocations handle accept events of different
\* drivers for a trip both read as pending, at most one of them sets the
\* status to accepted (the other writes nothing).
AcceptRaceOneWinner ==
    \A i, j \in Invs :
        ( /\ i # j
          /\ inv[i].kind = "accept" /\ inv[j].kind = "accept"
          /\ inv[i].trip = inv[j].trip /\ inv[i].drv # inv[j].drv
          /\ inv[i].m.status = "pending" /\ inv[j].m.status = "pending" )
        => ~("meta_status" \in inv[i].wrote /\ "meta_status" \in inv[j].wrote)

\* C2: the status of the by-id record changes only along
\* await_when -> pending, pending -> accepted, pending -> declined.
AllowedEdges ==
    {<<"await_when", "pending">>, <<"pending", "accepted">>,
     <<"pending", "declined">>}

StatusMonotonic ==
    [][\A t \in TripIds :
          meta'[t].status # meta[t].status
          => <<meta[t].status, meta'[t].status>> \in AllowedEdges]_vars

\* C3: a confirm handled after a confirm of the same trip that set the
\* status to pending has ended finds the status pending, accepted or
\* declined, writes nothing to the store, sends nothing to a driver and
\* answers with the one edit that states the status it found.
ConfirmIdempotent ==
    \A r \in Recs :
        (r.kind = "confirm" /\ r.after)
        => /\ r.m.status \in Settled
           /\ r.wrote = {}
           /\ "ride_request" \notin Tags(r)
           /\ \/ r.pc = "cf_already" /\ r.out = <<>>
              \/ /\ Ended(r)
                 /\ r.out = <<Edit(r.chat, "already", r.m.status, NoDriver)>>

ConfirmIdempotentWitness ==
    /\ last.kind = "confirm" /\ last.after /\ last.pc = "done"
    /\ last.m.status = "accepted"

\* C4: each registered driver is sent the ride request of a trip at most
\* once, whatever the number and interleaving of confirm events.
AtMostOneDispatch ==
    \A t \in TripIds, d \in Drivers : drvReq[t][d] <= 1

\* C5: a confirm that reads status await_when and finds the desired time
\* or the passenger phone missing writes nothing, sends nothing to a
\* driver and only prompts the user for the missing item; and a record
\* with status pending (or later) has both a desired time and a phone.
MissingItem(m) ==
    IF m.desired_time = 0 THEN "cf_needtime"
    ELSE IF m.passenger_phone = "" THEN "cf_needphone" ELSE "none"

ConfirmAbortsWhenIncomplete ==
    /\ \A r \in Recs :
          ( /\ r.kind = "confirm" /\ r.m.exists /\ r.m.status = "await_when"
            /\ MissingItem(r.m) # "none" )
          => /\ r.wrote = {}
             /\ "ride_request" \notin Tags(r)
             /\ \/ r.pc = MissingItem(r.m) /\ r.out = <<>>
                \/ Ended(r) /\ r.out = <<Send(r.chat, MissingItem(r.m))>>
    /\ \A t \in TripIds :
          \A st \in {meta[t].status, utrip[Owner][t].status} :
              st \in Settled
              => meta[t].desired_time # 0 /\ meta[t].passenger_phone # ""

ConfirmAbortsWitness ==
    /\ last.kind = "confirm" /\ last.pc = "done"
    /\ last.m.status = "await_when"
    /\ last.m.desired_time # 0 /\ last.m.passenger_phone = ""
    /\ meta[last.trip].status = "await_when"
    /\ utrip[Owner][last.trip].status = "await_when"

\* C6: a decline first edits the declining driver's own message; it writes
\* the status and notifies the passenger only when the status it read was
\* pending; having read accepted or declined it writes nothing and sends
\* nothing to the passenger.
DeclineFrame ==
    \A r \in Recs :
        r.kind = "decline"
        => /\ r.chat = r.drv
           /\ r.pc # "dc_edit"
              => /\ Len(r.out) >= 1
                 /\ r.out[1] = Edit(r.drv, "declined", "", NoDriver)
           /\ (r.wrote # {} \/ "pax_declined" \in Tags(r))
              => r.m.status = "pending"
           /\ r.m.status \in {"accepted", "declined"}
              => /\ r.wrote = {}
                 /\ Len(r.out) <= 1
                 /\ r.pc \in {"dc_edit", "done", "crashed"}

DeclineFrameWitness ==
    /\ last.kind = "decline" /\ last.pc = "done"
    /\ last.m.status = "accepted"
    /\ meta[last.trip].status = "accepted"
    /\ paxNote[last.trip].dec = 0

\* C7: an accept that reads status accepted only edits that driver's
\* message, naming the driver who took the ride; it writes nothing and
\* sends nothing to the passenger.
AcceptAfterAcceptBenign ==
    \A r \in Recs :
        (r.kind = "accept" /\ r.m.exists /\ r.m.status = "accepted")
        => /\ r.wrote = {}
           /\ r.m.driver_name # NoDriver
           /\ r.m.driver_name = DriverName(r.m.driver_id)
           /\ "pax_accepted" \notin Tags(r)
           /\ \/ r.pc = "ac_taken" /\ r.out = <<>>
              \/ /\ Ended(r)
                 /\ r.out = <<Edit(r.drv, "taken", "", r.m.driver_name)>>

AcceptAfterAcceptWitness ==
    /\ last.kind = "accept" /\ last.pc = "done"
    /\ last.m.status = "accepted" /\ last.m.driver_id # last.drv
    /\ meta[last.trip].driver_id = last.m.driver_id

\* C8: in every state in which no invocation is running (none is between
\* its writes) and none has crashed, the user-keyed record has the status
\* of the by-id record.
MirroredStatusAgrees ==
    (Quiescent /\ ~failed)
    => \A t \in TripIds : utrip[meta[t].user_id][t].status = meta[t].status

\* C9: whenever the by-id record has a scheduled time or driver fields and
\* no invocation is running, the user-keyed record holds the same values.
ListingFieldsMirrored ==
    Quiescent
    => \A t \in TripIds :
          LET m == meta[t]
              u == utrip[m.user_id][t]
          IN  /\ m.desired_time # 0 => u.desired_time = m.desired_time
              /\ m.driver_name # NoDriver
                 => u.driver_name = m.driver_name /\ u.driver_car = m.driver_car

\* C10: what the my-trips query returned is at most 5 of the user's trips,
\* they are the ones with the greatest creation times, and they are ordered
\* most recently created first.
Created(t) == listing.had[t].created_at

ListingMostRecentFirst ==
    listing.user # 0
    => LET its == listing.items
           have == {t \in DOMAIN listing.had : listing.had[t].exists}
           shown == {its[k] : k \in 1..Len(its)}
       IN  /\ Len(its) <= ListLimit
           /\ Len(its) = (IF Cardinality(have) < ListLimit
                          THEN Cardinality(have) ELSE ListLimit)
           /\ shown \subseteq have /\ Cardinality(shown) = Len(its)
           /\ \A k \in 1..(Len(its) - 1) : Created(its[k]) > Created(its[k + 1])
           /\ \A t \in have \ shown, x \in shown : Created(t) < Created(x)

\* C11: the step that ends the handling of a drop-off text whose addresses
\* geocoded and whose route was computed leaves one new trip, present in
\* the user-keyed and in the by-id record with status await_when, and the
\* user's session in await_when(trip_id) for that trip.
DropoffCreatesTrip ==
    [][\A i \in Invs :
          ( /\ inv[i].kind = "dropoff" /\ inv[i].st = "ok"
            /\ inv[i].pc # "idle" /\ inv'[i].pc = "idle" )
          => LET c == inv[i].chat
                 t == inv[i].trip
             IN  /\ t \in ListIds
                 /\ utrip'[c][t] = NewUTrip(c, inv[i].epoch)
                 /\ meta'[t] = NewMeta(c, inv[i].epoch)
                 /\ session'[c] = <<"await_when", t>>]_vars

\* C12: the step that ends the handling of a drop-off text for which a
\* geocoding or the route failed has created no trip record, has sent the
\* user the specific error message, and leaves the user without a session
\* (no drop-off expected any more).
DropoffFailureResets ==
    [][\A i \in Invs :
          ( /\ inv[i].kind = "dropoff" /\ inv[i].st # "ok"
            /\ inv[i].pc # "idle" /\ inv'[i].pc = "idle" )
          => /\ utrip' = utrip /\ meta' = meta
             /\ last'.wrote \subseteq {"session"}
             /\ Len(last'.out) >= 1
             /\ last'.out[1] = Send(inv[i].chat, inv[i].st)
             /\ session'[inv[i].chat] = NoSession]_vars

\* The store items of trips and profiles.
records == <<profile, utrip, meta>>

\* C13: a text that is no command, handled in session state
\* await_when(trip_id), is answered with the prompt to use the picker and
\* nothing else: no step of its handling changes the session or a trip or
\* profile record.
TextInAwaitWhenRejected ==
    [][\A i \in Invs :
          /\ (inv[i].pc = "idle" /\ inv'[i].kind = "text" /\ inv'[i].st = "await_when")
             => /\ inv'[i].pc = "tx_picker"
                /\ session[inv'[i].chat] = <<"await_when", inv'[i].trip>>
                /\ UNCHANGED <<session, records>>
          /\ (inv[i].kind = "text" /\ inv[i].st = "await_when" /\ inv'[i] # inv[i])
             => /\ UNCHANGED <<session, records>>
                /\ inv'[i].pc = "idle"
                /\ last'.wrote = {}
                /\ last'.out = <<Send(inv[i].chat, "use_picker")>>]_vars

TextInAwaitWhenWitness ==
    /\ last.kind = "text" /\ last.st = "await_when" /\ last.pc = "done"
    /\ session[last.chat] = <<"await_when", last.trip>>

\* C14: every desired time a pick-time event stores is on a quarter-hour
\* boundary (a multiple of 900 seconds) and is not earlier than the
\* timestamp the event carried.
StoredTimeRoundedUp ==
    [][\A t \in TripIds :
          meta'[t].desired_time # meta[t].desired_time
          => /\ meta'[t].desired_time % 900 = 0
             /\ \E i \in Invs :
                   /\ inv[i].pc = "idle" /\ inv'[i].kind = "timepick"
                   /\ inv'[i].trip = t
                   /\ inv'[i].epoch <= meta'[t].desired_time]_vars

\* C15: when the handling of a pick-time event ends after the time was
\* stored, a user with a saved phone has been offered it and the session is
\* left as it was, and a user without one has the session
\* await_phone(trip_id); the handling of a use-new-phone event, and of a
\* use-saved-phone event without a saved phone, also ends with the session
\* await_phone(trip_id).
PhoneStepFollowsTime ==
    [][\A i \in Invs :
          (inv[i].pc # "idle" /\ inv'[i].pc = "idle")
          => LET r == inv[i]
                 awaits == session'[r.chat] = <<"await_phone", r.trip>>
             IN  /\ (r.pc = "tp_send" /\ r.saved # "")
                    => /\ session' = session
                       /\ last'.out[Len(last'.out)] = Send(r.chat, "use_saved")
                 /\ (r.pc = "tp_send" /\ r.saved = "") => awaits
                 /\ r.pc \in {"up_nophone", "cp_send"} => awaits]_vars

\* C16: when the handling of a text in session state await_phone(trip_id)
\* ends: for a text that normalizes to a phone, the phone has been written
\* to the trip and to the profile and the session is cleared; for a text
\* that does not, the corrective prompt was sent and the session, the trip
\* and the profile are unchanged.
PhoneEntrySettles ==
    [][\A i \in Invs :
          ( /\ inv[i].kind = "text" /\ inv[i].st = "await_phone"
            /\ inv[i].pc # "idle" /\ inv'[i].pc = "idle" )
          => LET r == inv[i]
             IN  IF r.saved # ""
                 THEN /\ {"meta_phone", "profile"} \subseteq last'.wrote
                      /\ session'[r.chat] = NoSession
                 ELSE /\ last'.wrote = {}
                      /\ last'.out = <<Send(r.chat, "bad_phone")>>
                      /\ UNCHANGED <<session, records>>]_vars

\* C17: the start/menu command, in whatever session state it arrives,
\* first deletes the session (no pickup, drop-off, picker or phone input is
\* expected any more) and, when its handling completes, leaves the session
\* idle; no step of it changes a trip or profile record.
StartResetsSession ==
    [][\A i \in Invs :
          /\ (inv[i].pc = "idle" /\ inv'[i].kind = "start")
             => /\ session'[inv'[i].chat] = NoSession
                /\ inv'[i].st = session[inv'[i].chat][1]
                /\ UNCHANGED records
          /\ (inv[i].kind = "start" /\ inv'[i] # inv[i])
             => /\ UNCHANGED records
                /\ inv'[i].pc = "idle"
                /\ last'.wrote = {"session"}
                /\ IF last'.pc = "done"
                   THEN session'[inv[i].chat] = <<"idle">>
                   ELSE session' = session]_vars

StartResetsWitness ==
    /\ last.kind = "start" /\ last.pc = "done" /\ last.st = "await_phone"
    /\ session[last.chat] = <<"idle">>
    /\ \E t \in TripIds : meta[t].exists /\ meta[t].desired_time # 0

\* C18: an event with an unparsable body, a payload of no known verb, or a
\* payload that is malformed for its verb ends with the success response
\* and has written nothing and sent nothing.
MalformedEventHandled ==
    \A r \in Recs :
        (r.kind = "badbody" \/ r.st = "malformed")
        => r.pc = "done" /\ r.wrote = {} /\ r.out = <<>>

\* C19: no invocation ends with an unhandled fault, whatever outbound call
\* fails while an event is handled.
NoUnhandledFault == ~failed

\* C20: an edit-text call that raises never ends the invocation: the
\* clear-buttons call follows it, and a handler whose edit (or its
\* fallback) went through carries on with its next call.
EditFailureDowngraded ==
    \A r \in Recs :
        /\ \A k \in 1..Len(r.out) :
              (r.out[k].call = "edit_text" /\ r.pc = "crashed")
              => k < Len(r.out) /\ r.out[k + 1].call = "clear_buttons"
        /\ (r.kind = "datepick" /\ r.st # "malformed" /\ r.pc = "done")
           => r.out[Len(r.out)] = Send(r.chat, "choose_time")

\* C21: for every nonnegative distance and duration and every nonnegative
\* configuration, the fare is at least the minimum; below the short-trip
\* threshold it is at least the short-trip minimum; at or above the
\* threshold it equals base + miles * per_mile + minutes * per_minute + fee.
FareCalled == calc.fn = "calc_fare" /\ calc.arg # <<>>

FareFloorElseFormula ==
    FareCalled
    => LET miles == calc.arg[1]
           minutes == calc.arg[2]
       IN  /\ calc.res >= FARE_MINIMUM
           /\ IF miles < SHORT_TRIP_MILES_THRESHOLD
              THEN calc.res >= SHORT_TRIP_MINIMUM
              ELSE calc.res = Round2(RawFare(calc.cfg, miles, minutes))

\* C21 as amended: at or above the threshold the fare is the larger of the
\* minimum and the formula; below it, the largest of the formula and the
\* two minimums.
FareIsFlooredFormula ==
    FareCalled
    => LET miles == calc.arg[1]
           formula == Round2(RawFare(calc.cfg, miles, calc.arg[2]))
       IN  /\ calc.res >= FARE_MINIMUM
           /\ IF miles < SHORT_TRIP_MILES_THRESHOLD
              THEN /\ calc.res >= SHORT_TRIP_MINIMUM
                   /\ calc.res \in {formula, FARE_MINIMUM, SHORT_TRIP_MINIMUM}
                   /\ calc.res >= formula
              ELSE /\ calc.res \in {formula, FARE_MINIMUM}
                   /\ calc.res >= formula

\* A long trip under a configuration whose formula stays below the minimum.
FareIsFlooredWitness ==
    /\ FareCalled
    /\ calc.arg[1] >= SHORT_TRIP_MILES_THRESHOLD
    /\ Round2(RawFare(calc.cfg, calc.arg[1], calc.arg[2])) < FARE_MINIMUM
    /\ calc.res = FARE_MINIMUM

\* C22: round_to_15m applied to its own result returns that result; the
\* minute of its result is 0, 15, 30 or 45; and a time whose minute is
\* above 45 is moved to minute 0 of the next hour (of the next day when the
\* hour is 23).
RoundIdempotentQuarter ==
    calc.fn = "round_to_15m"
    => /\ Len(calc.res) = 2 => calc.res[2] = calc.res[1]
       /\ \A k \in 1..Len(calc.res) : MinuteOf(calc.res[k]) \in {0, 15, 30, 45}
       /\ (calc.res # <<>> /\ MinuteOf(calc.arg[1]) > 45)
          => LET t == calc.arg[1]
                 r == calc.res[1]
             IN  /\ MinuteOf(r) = 0 /\ SecondOf(r) = 0
                 /\ IF HourOf(t) = 23
                    THEN HourOf(r) = 0 /\ DayOf(r) = DayOf(t) + 1
                    ELSE HourOf(r) = HourOf(t) + 1 /\ DayOf(r) = DayOf(t)

\* 23:46:30 rounded, and the result rounded again.
RoundIdempotentWitness ==
    /\ calc.fn = "round_to_15m" /\ Len(calc.res) = 2
    /\ HourOf(calc.arg[1]) = 23 /\ MinuteOf(calc.arg[1]) = 46
    /\ SecondOf(calc.arg[1]) = 30
    /\ DayOf(calc.res[2]) = 1

\* C23: for every date the slots build_time_buttons returns are 36 pick-time
\* buttons, the first at 6:00 AM and the last at 11:30 PM of that date, each
\* timestamp exactly 30 minutes after the one before it; the placeholder is
\* not among them.
SlotsEveryHalfHour ==
    (calc.fn = "build_time_buttons" /\ calc.arg # <<>>)
    => LET rows == calc.res
           date == calc.arg[2]
       IN  /\ Len(rows) = 36
           /\ \A k \in 1..Len(rows) :
                 rows[k].verb = "timepick" /\ rows[k].trip = calc.arg[1]
           /\ rows[1].wall = 6 * 3600
           /\ rows[1].epoch = Timestamp(date, 6 * 3600)
           /\ rows[Len(rows)].wall = 23 * 3600 + 30 * 60
           /\ rows[Len(rows)].epoch = Timestamp(date, 23 * 3600 + 30 * 60)
           /\ \A k \in 1..(Len(rows) - 1) :
                 rows[k + 1].epoch = rows[k].epoch + 30 * 60

\* The slots of a day on which the clock changes to daylight time.
SlotsWitness ==
    /\ calc.fn = "build_time_buttons" /\ calc.arg # <<>>
    /\ calc.arg[2].kind = "spring" /\ calc.arg[2].day = MaxSlotDay
    /\ Len(calc.res) = 36
    /\ calc.res[36].epoch = calc.res[1].epoch + 35 * 30 * 60

\* C24: with s the input stripped of every character that is neither digit
\* nor plus: if s is a plus followed by 8 to 15 digits, s is returned;
\* otherwise if s is 10 digits, "+1" and s; otherwise if s is 11 digits the
\* first of which is 1, "+" and s; every other input is rejected.  What is
\* returned is a plus followed by 8 to 15 digits.
AllDigits(s) == \A k \in 1..Len(s) : s[k] \in Digits

PhoneNormalizedByForm ==
    (calc.fn = "normalize_phone" /\ calc.arg # <<>>)
    => LET s == SelectSeq(calc.arg[1], LAMBDA c : c \in Digits \cup {"+"})
           expected ==
               IF /\ s # <<>> /\ Head(s) = "+" /\ AllDigits(Tail(s))
                  /\ Len(s) - 1 \in 8..15
               THEN Concat(s)
               ELSE IF AllDigits(s) /\ Len(s) = 10 THEN "+1" \o Concat(s)
               ELSE IF AllDigits(s) /\ Len(s) = 11 /\ s[1] = "1"
               THEN "+" \o Concat(s)
               ELSE ""
       IN  /\ calc.res = expected
           /\ calc.res # ""
              => \E d \in {t \in {Tail(s), SelectSeq(s, LAMBDA c : c \in Digits),
                                 <<"1">> \o SelectSeq(s, LAMBDA c : c \in Digits)} :
                              AllDigits(t) /\ Len(t) \in 8..15} :
                    calc.res = "+" \o Concat(d)

\* C25: a confirm that passed its checks (it set the status to pending) has
\* sent, when it ends, the ride request to every registered driver exactly
\* once, each with the accept and decline buttons that carry the trip's id
\* and the id of the driver the message went to.
RequestSentToEveryDriver ==
    \A r \in Recs :
        (r.kind = "confirm" /\ Ended(r) /\ "meta_status" \in r.wrote)
        => /\ \A d \in Drivers :
                 Cardinality({k \in 1..Len(r.out) :
                                 r.out[k] = RideRequest(r.trip, d)}) = 1
           /\ \A k \in 1..Len(r.out) :
                 r.out[k].tag = "ride_request"
                 => r.out[k] = RideRequest(r.trip, r.out[k].to)

\* C26: once the Confirm button of a trip has been presented to the user
\* (after a typed phone or after the saved phone was used) and a confirm of
\* the trip has set it pending and ended, the user's session is neither
\* await_when nor await_phone for that trip.
SessionGoneAfterConfirm ==
    \A t \in TripIds :
        (t \in cfShown /\ t \in cfDone)
        => session[meta[t].user_id] \notin {<<"await_when", t>>, <<"await_phone", t>>}

\* C27: the handling of the new-ride command, whatever the session state
\* it arrives in, ends with the session await_pickup; a text that is no
\* command, handled in state await_pickup, moves the session to
\* await_dropoff with the text as the raw pickup string when it is not
\* empty and leaves the session alone when it is empty; no step of either
\* changes a trip or profile record.
NewrideThenPickup ==
    [][\A i \in Invs :
          /\ ( /\ inv[i].kind = "newride"
               /\ inv[i].pc # "idle" /\ inv'[i].pc = "idle" )
             => session'[inv[i].chat] = <<"await_pickup">>
          /\ (inv[i].pc = "idle" /\ inv'[i].kind = "pickup")
             => IF inv'[i].saved # ""
                THEN session'[inv'[i].chat] = <<"await_dropoff", inv'[i].saved>>
                ELSE session' = session
          /\ ( \/ inv[i].kind \in {"newride", "pickup"}
               \/ inv'[i].kind \in {"newride", "pickup"} )
             => (inv'[i] # inv[i] => UNCHANGED records)]_vars

\* C28: whenever a driver has been sent the accept and decline buttons of a
\* trip, the trip's by-id record has been written with status pending (its
\* status is pending or what an accept or decline made of it) and holds a
\* desired time and a passenger phone; the confirm that sends them has
\* written the status before its first send; and every accept or decline
\* event of a driver who was sent the buttons reads such a record.
BeenPending(m) ==
    /\ m.exists /\ m.status \in Settled
    /\ m.desired_time # 0 /\ m.passenger_phone # ""

DispatchAfterPending ==
    /\ \A t \in TripIds :
          (\E d \in Drivers : drvReq[t][d] > 0) => BeenPending(meta[t])
    /\ \A r \in Recs :
          /\ (r.kind = "confirm" /\ "ride_request" \in Tags(r))
             => /\ "meta_status" \in r.wrote
                /\ r.m.desired_time # 0 /\ r.m.passenger_phone # ""
          /\ (r.kind = "confirm" /\ r.pc = "cf_bcast") => BeenPending(meta[r.trip])
          /\ r.kind \in {"accept", "decline"} => BeenPending(r.m)

\* Both drivers have the buttons and one of them has tapped decline.
DispatchAfterPendingWitness ==
    /\ \A d \in Drivers : drvReq[1][d] = 1
    /\ last.kind = "decline" /\ last.pc = "done"
    /\ last.m.status = "pending" /\ meta[1].status = "declined"

\* C29: whatever the sequence and interleaving of accept and decline
\* events, the passenger of a trip is sent at most one outcome: one
\* acceptance naming one driver or one decline, never both, never two
\* acceptances.
AtMostOneOutcome ==
    \A t \in TripIds :
        LET accepting == {d \in Drivers : paxNote[t].acc[d] > 0}
        IN  /\ Cardinality(accepting) <= 1
            /\ \A d \in Drivers : paxNote[t].acc[d] <= 1
            /\ paxNote[t].dec <= 1
            /\ ~(accepting # {} /\ paxNote[t].dec > 0)

\* C30: in every state, also between the writes of an accept and with
\* other accepts and declines running, a by-id record whose status is
\* accepted has a driver id, name and vehicle.
AcceptedHasDriver ==
    \A t \in TripIds :
        meta[t].status = "accepted"
        => /\ meta[t].driver_id \in Drivers
           /\ meta[t].driver_name # NoDriver
           /\ meta[t].driver_car # NoDriver

\* An accept stands between its two status writes while the other driver's
\* accept is running.
AcceptedHasDriverWitness ==
    \E i, j \in Invs :
        /\ i # j
        /\ inv[i].kind = "accept" /\ inv[i].pc = "st_user"
        /\ inv[j].kind = "accept" /\ inv[j].drv # inv[i].drv
        /\ meta[inv[i].trip].status = "accepted"

\* C31: once the by-id record of a trip has status pending, accepted or
\* declined, no step of an event of the requesting user (a tap on the
\* picker, date or time buttons, on the use-saved-phone or use-new-phone
\* button, or a typed phone) changes the desired time or the passenger
\* phone the record holds.
DispatchedTripFrozen ==
    [][\A t \in TripIds :
          meta[t].status \in Dispatched
          => /\ meta'[t].desired_time = meta[t].desired_time
             /\ meta'[t].passenger_phone = meta[t].passenger_phone]_vars

====
